---- MODULE Spec2Model ----
(***************************************************************************)
(* Session protocol engine of the empathic-voice client.                   *)
(*                                                                         *)
(*   src/components/ChatSocket.ts      ChatSocket: the two channels, the   *)
(*                                     handler tables, the outbound sends  *)
(*   src/components/useVoiceClient.ts  the hook whose message handler      *)
(*                                     knows tool calls ("tools")          *)
(*   src/unnamed/part_000              the hook whose message handler      *)
(*                                     synthesizes text from a legacy      *)
(*                                     audio message and delays the audio  *)
(*                                     by a timer ("delayed")              *)
(*                                                                         *)
(* One behaviour is one session of one of the two hooks.  The transport    *)
(* (ReconnectingWebSocket), the codec (serializers) and the tool handler   *)
(* (onToolCall) are collaborators that the sources reach by name only.     *)
(***************************************************************************)
EXTENDS Integers, Sequences, FiniteSets, TLC

\* ------------------------------------------------------------------ bounds
MaxFrames == 2      \* inbound messages handed to the message handler
MaxCloses == 2      \* close notifications recorded
MaxSends  == 1      \* frames recorded on the outbound channel

\* --------------------------------------------------------------- the state
VARIABLES
  hook,            \* "delayed" (part_000) or "tools" (components/useVoiceClient.ts)
  client,          \* client.current: "null" or "set"
  readyState,      \* the hook's VoiceReadyState
  sendSocket,      \* readyState of ChatSocket.sendSocket
  listening,       \* ChatSocket's listeners are attached to the sockets
  connectPromise,  \* the promise returned by connect
  decoded,         \* the messages handed to the message handler, in order
  delivered,       \* calls of onMessage / onAudioMessage, in order
  timers,          \* pending setTimeout callbacks, oldest first
  pendingCalls,    \* tool-call handler invocations not yet resolved
  resolvedCalls,   \* tool-call handler invocations: what each resolved to, and
                   \* its place in the order of resolution
  errors,          \* the reports made through onError
  faults,          \* exceptions that left a handler, unhandled rejections
  closeEvents,     \* calls of onClose, in order (the close codes)
  outbound,        \* frames handed to sendSocket.send, in order
  lastSend,        \* the most recent call of an outbound operation
  recvSocket,      \* readyState of ChatSocket.recvSocket
  recvEvents,      \* the kinds of event recvSocket has reported to ChatSocket
  frames           \* the message events ChatSocket has handled, in order

vars == << hook, client, readyState, sendSocket, listening, connectPromise,
           decoded, delivered, timers, pendingCalls, resolvedCalls, errors,
           faults, closeEvents, outbound, lastSend, recvSocket, recvEvents,
           frames >>

lifecycleVars == << client, readyState, sendSocket, listening, connectPromise >>
dispatchVars  == << decoded, delivered, timers, pendingCalls, resolvedCalls >>
sendVars      == << outbound, lastSend >>
channelVars   == << recvSocket, recvEvents, frames >>

\* ---------------------------------------------------------- VoiceReadyState
IDLE       == "idle"
CONNECTING == "connecting"
OPEN       == "open"
CLOSED     == "closed"
VoiceReadyState == { IDLE, CONNECTING, OPEN, CLOSED }

\* The close code that ChatSocket.close hands to handleSendClose.
NormalClosure == 1000
\* The close code of a close the channel reports by itself (abnormal closure).
AbnormalClosure == 1006
ChannelCloseCodes == { AbnormalClosure }

\* ------------------------------------------------------- inbound messages
\* A string-valued optional field is undefined, the empty string or a text.
Undefined == "undefined"
TextValues == { Undefined, "", "text" }

\* JavaScript truthiness of an optional string, as `if (message.question)`.
Truthy(s) == s # Undefined /\ s # ""

\* The kinds both message handlers deliver through onMessage.
CommonKinds == { "assistant_message", "user_message", "user_interruption",
                 "error", "chat_metadata", "assistant_end" }
\* The kinds only the "tools" handler delivers through onMessage.
ToolEchoKinds == { "tool_response", "tool_error" }

ToolCallIds == { "t1", "t2" }
NoId == "none"

Msg(t, q, a, id) == [ type |-> t, question |-> q, answer |-> a, toolCallId |-> id ]

PlainMessages == { Msg(t, Undefined, Undefined, NoId) :
                     t \in CommonKinds \cup ToolEchoKinds \cup { "new_kind" } }
CurrentAudio  == { Msg("audio_output", Undefined, Undefined, NoId) }
LegacyAudio   == { Msg("audio_output", q, a, NoId) : q \in TextValues, a \in TextValues }
ToolCalls     == { Msg("tool_call", Undefined, Undefined, id) : id \in ToolCallIds }

\* What each hook's ChatSocket can hand to the message handler.  The
\* AudioOutput of src/unnamed/part_001 has no question and no answer; the
\* handler of part_000 reads both.
Inbound(h) == IF h = "delayed"
                THEN PlainMessages \cup LegacyAudio \cup ToolCalls
                ELSE PlainMessages \cup CurrentAudio \cup ToolCalls

IsLegacyText(m) == m.type = "audio_output"
                   /\ (m.question # Undefined \/ m.answer # Undefined)
IsCurrentAudio(m) == m.type = "audio_output"
                     /\ m.question = Undefined /\ m.answer = Undefined

\* One call of a consumer callback: which callback, the kind of the message,
\* the position in `decoded` of the message it comes from, and whether the
\* message was made by the handler itself.
\* Where a receivedAt stamp was taken: by ChatSocket when the frame was
\* decoded, or by the hook's message handler when it dispatched the message.
AtDecode == "decode"
AtDispatch == "dispatch"

\* { ...message, receivedAt: new Date() }: the copy that is handed on carries
\* the handler's own stamp, whatever stamp the message came with.
Restamp(at) == AtDispatch

Delivery(cb, t, seq, synth) ==
  [ cb |-> cb, type |-> t, seq |-> seq, synth |-> synth,
    receivedAt |-> IF synth THEN AtDispatch ELSE Restamp(AtDecode) ]


\* -------------------------------------------------- the transport (Channel)
\* readyState of a ReconnectingWebSocket; "NONE" before connect made one.
SocketNone       == "NONE"
SocketConnecting == "CONNECTING"
SocketOpen       == "OPEN"
SocketClosed     == "CLOSED"

\* ----------------------------------------------------------------- Init
NoSend == [ op |-> "none", state |-> IDLE, outcome |-> "none" ]

Init ==
  /\ hook \in { "delayed", "tools" }
  /\ client = "null"
  /\ readyState = IDLE
  /\ sendSocket = SocketNone
  /\ listening = FALSE
  /\ connectPromise = "none"
  /\ decoded = << >>
  /\ delivered = << >>
  /\ timers = << >>
  /\ pendingCalls = {}
  /\ resolvedCalls = {}
  /\ errors = {}
  /\ faults = {}
  /\ closeEvents = << >>
  /\ outbound = << >>
  /\ lastSend = NoSend
  /\ recvSocket = SocketNone
  /\ recvEvents = {}
  /\ frames = << >>

\* ------------------------------------------------------------ lifecycle
\* Settle without the rule that only a pending promise settles.
SettleAgain(p, how) == how

\* resolve / reject of the promise connect returns: a settled promise stays.
Settle(p, how) == IF p = "pending" THEN how ELSE p

\* connect(config): makes the sockets and the ChatSocket (whose constructor
\* attaches the listeners), registers the four handlers, and sets CONNECTING.
\* The model follows one session: connect is taken once.
Connect ==
  /\ client = "null"
  /\ client' = "set"
  /\ sendSocket' = SocketConnecting
  /\ listening' = TRUE
  /\ connectPromise' = "pending"
  /\ readyState' = CONNECTING
  /\ recvSocket' = SocketConnecting
  /\ UNCHANGED << hook, recvEvents, frames, dispatchVars, errors, faults,
                  closeEvents, sendVars >>

\* The open event of sendSocket: handleSendOpen calls the 'open' handler.
SendOpenEvent ==
  /\ listening
  /\ sendSocket = SocketConnecting
  /\ sendSocket' = SocketOpen
  /\ readyState' = OPEN
  /\ connectPromise' = Settle(connectPromise, "resolved")
  /\ UNCHANGED << hook, channelVars, client, listening, dispatchVars, errors, faults,
                  closeEvents, sendVars >>

CloseHandlerSilent(code) ==
  /\ closeEvents' = closeEvents
  /\ readyState' = CLOSED

\* The 'close' handler of the hook: onClose, then setReadyState(CLOSED).
CloseHandler(code) ==
  /\ closeEvents' = Append(closeEvents, code)
  /\ readyState' = CLOSED

\* The close event of sendSocket: handleSendClose calls the 'close' handler.
SendCloseEvent ==
  /\ listening
  /\ sendSocket \in { SocketConnecting, SocketOpen }
  /\ Len(closeEvents) < MaxCloses
  /\ \E code \in ChannelCloseCodes : CloseHandler(code)
  /\ sendSocket' = SocketClosed
  /\ UNCHANGED << hook, channelVars, client, listening, connectPromise, dispatchVars,
                  errors, faults, sendVars >>

\* The transport connects again after a close it did not ask for.
SendReconnect ==
  /\ listening
  /\ sendSocket = SocketClosed
  /\ sendSocket' = SocketConnecting
  /\ UNCHANGED << hook, channelVars, client, readyState, listening, connectPromise,
                  dispatchVars, errors, faults, closeEvents, sendVars >>

TransportError == [ msg |-> "ReconnectingWebSocket error", seq |-> 0 ]

\* The error event of sendSocket: handleSendError calls the 'error' handler,
\* which calls onError and rejects the promise of connect.
SendErrorEvent ==
  /\ listening
  /\ errors' = errors \cup { TransportError }
  /\ connectPromise' = Settle(connectPromise, "rejected")
  /\ UNCHANGED << hook, channelVars, client, readyState, sendSocket, listening,
                  dispatchVars, faults, closeEvents, sendVars >>

\* disconnect(): setReadyState(IDLE), then client.current?.close().
\* ChatSocket.close closes both sockets, calls handleSendClose with code
\* 1000, and removes the listeners.
Disconnect ==
  /\ Len(closeEvents) < MaxCloses
  /\ IF client = "null"
       THEN /\ readyState' = IDLE
            /\ UNCHANGED << sendSocket, recvSocket, listening, closeEvents >>
       ELSE /\ sendSocket' = SocketClosed
            /\ recvSocket' = SocketClosed
            /\ CloseHandler(NormalClosure)
            /\ listening' = FALSE
  /\ UNCHANGED << hook, recvEvents, frames, client, connectPromise, dispatchVars, errors, faults,
                  sendVars >>

\* ------------------------------------- the message handler of part_000
\* Synthesized without its first branch: the answer alone is turned into text.
SynthesizedAnswerOnly(m, seq) ==
  IF Truthy(m.answer)
    THEN << Delivery("onMessage", "assistant_message", seq, TRUE) >> ELSE << >>

\* The messages the handler makes from the inline text of an audio message:
\* a user_message if question is truthy, then an assistant_message if answer
\* is truthy.
Synthesized(m, seq) ==
  (IF Truthy(m.question)
     THEN << Delivery("onMessage", "user_message", seq, TRUE) >> ELSE << >>)
  \o
  (IF Truthy(m.answer)
     THEN << Delivery("onMessage", "assistant_message", seq, TRUE) >> ELSE << >>)

\* What the handler hands to the consumer before it returns.
DelayedDeliveries(m, seq) ==
  IF m.type = "audio_output" THEN Synthesized(m, seq)
  ELSE IF m.type \in CommonKinds
         THEN << Delivery("onMessage", m.type, seq, FALSE) >>
  ELSE << >>                       \* isNever(message); return

\* The timers the handler starts: every audio_output goes through setTimeout.
DelayedTimers(m, seq) ==
  IF m.type = "audio_output" THEN << seq >> ELSE << >>

ScheduleFront(ts, new) == new \o ts

\* setTimeout(..., 200): the callback joins the pending timers behind those
\* set before it, all of them having the same delay.
Schedule(ts, new) == ts \o new

\* The 'message' handler registered by connect in part_000, called with one
\* decoded message (ChatSocket.EventHandlers.message) while the ChatSocket
\* listens to its sockets.
OnMessageDelayed ==
  /\ hook = "delayed"
  /\ listening
  /\ Len(decoded) < MaxFrames
  /\ \E m \in Inbound(hook) :
       LET seq == Len(decoded) + 1 IN
         /\ decoded' = Append(decoded, m)
         /\ delivered' = delivered \o DelayedDeliveries(m, seq)
         /\ timers' = Schedule(timers, DelayedTimers(m, seq))
  /\ UNCHANGED << hook, channelVars, lifecycleVars, pendingCalls, resolvedCalls, errors,
                  faults, closeEvents, sendVars >>

\* A setTimeout callback runs: timers of one delay run in the order set.
TimerFire ==
  /\ timers # << >>
  /\ delivered' = Append(delivered,
                         Delivery("onAudioMessage", "audio_output", Head(timers), FALSE))
  /\ timers' = Tail(timers)
  /\ UNCHANGED << hook, channelVars, lifecycleVars, decoded, pendingCalls, resolvedCalls,
                  errors, faults, closeEvents, sendVars >>

\* ------------------- the message handler of components/useVoiceClient.ts
ToolsDeliveries(m, seq) ==
  IF m.type = "audio_output"
    THEN << Delivery("onAudioMessage", "audio_output", seq, FALSE) >>
  ELSE IF m.type \in CommonKinds \cup ToolEchoKinds \cup { "tool_call" }
    THEN << Delivery("onMessage", m.type, seq, FALSE) >>
  ELSE << >>                       \* isNever(message); return

\* The handler invocations the message starts (onToolCall.current?.(...)).
ToolsInvocations(m, seq) == IF m.type = "tool_call" THEN { seq } ELSE {}

\* The 'message' handler registered by connect in components/useVoiceClient.ts,
\* called with one decoded message while the ChatSocket listens to its sockets.
\* onToolCall is not declared in the file; it stands for the handler the
\* consumer supplies, which returns a promise.
OnMessageTools ==
  /\ hook = "tools"
  /\ listening
  /\ Len(decoded) < MaxFrames
  /\ \E m \in Inbound(hook) :
       LET seq == Len(decoded) + 1 IN
         /\ decoded' = Append(decoded, m)
         /\ delivered' = delivered \o ToolsDeliveries(m, seq)
         /\ pendingCalls' = pendingCalls \cup ToolsInvocations(m, seq)
  /\ UNCHANGED << hook, channelVars, lifecycleVars, timers, resolvedCalls, errors, faults,
                  closeEvents, sendVars >>

\* ------------------------------------------------------ tool-call results
Levels == { "info", "warn", "error" }
NoLevel == "null"

\* What a tool handler can do with its promise: resolve with what one of the
\* two builders returned, resolve with some other object, resolve with
\* nothing, or reject.
Result(k, l) == [ kind |-> k, level |-> l ]
HandlerResults ==
  { Result("success", NoLevel) }
  \cup { Result("error", l) : l \in Levels \cup { NoLevel } }
  \cup { Result(k, NoLevel) : k \in { "malformed", "missing", "rejected" } }

Response(t, id, l) == [ type |-> t, toolCallId |-> id, level |-> l ]
\* `undefined`, as a handler that resolves with nothing yields it.
NoResponse == Response("undefined", NoId, Undefined)

\* The level the error builder writes: level !== null ? 'warn' : undefined.
ErrorLevel(level) == IF level # NoLevel THEN "warn" ELSE Undefined

\* The value the promise resolves to; the builders close over the toolCallId
\* of the tool_call message they were made for.
BuiltResponse(m, r) ==
  CASE r.kind = "success"   -> Response("tool_response", m.toolCallId, Undefined)
    [] r.kind = "error"     -> Response("tool_error", m.toolCallId, ErrorLevel(r.level))
    [] r.kind = "malformed" -> Response("other", NoId, Undefined)
    [] OTHER                -> NoResponse

\* client.current?.sendToolResponseMessage(response) and
\* client.current?.sendToolErrorMessage(response): class ChatSocket defines
\* neither method, so the call throws a TypeError and sends nothing.
SendToolResponseMessage(response) == "TypeError"
SendToolErrorMessage(response)    == "TypeError"

\* The .then callback: what becomes of the resolved value.
ThenOutcome(response) ==
  IF response = NoResponse THEN "TypeError"          \* response.type of undefined
  ELSE IF response.type = "tool_response" THEN SendToolResponseMessage(response)
  ELSE IF response.type = "tool_error" THEN SendToolErrorMessage(response)
  ELSE "onError"

InvalidResponse(seq) == [ msg |-> "Invalid response from tool call", seq |-> seq ]
Fault(seq, what) == [ seq |-> seq, what |-> what ]

\* The promise of one handler invocation settles and its reaction runs.  The
\* chain has no catch: an exception in the callback, like a rejection of the
\* handler, is an unhandled rejection.
ToolResolve ==
  /\ \E s \in pendingCalls, r \in HandlerResults :
       LET response == BuiltResponse(decoded[s], r)
           outcome  == IF r.kind = "rejected" THEN "rejected" ELSE ThenOutcome(response)
       IN
         /\ pendingCalls' = pendingCalls \ { s }
         /\ resolvedCalls' = resolvedCalls \cup
                               { [ seq |-> s, result |-> r, response |-> response,
                                   nth |-> Cardinality(resolvedCalls) + 1 ] }
         /\ errors' = IF outcome = "onError"
                        THEN errors \cup { InvalidResponse(s) } ELSE errors
         /\ faults' = IF outcome \in { "TypeError", "rejected" }
                        THEN faults \cup { Fault(s, outcome) } ELSE faults
  /\ UNCHANGED << hook, channelVars, lifecycleVars, decoded, delivered, timers, closeEvents,
                  sendVars >>

\* ------------------------------------------------------- outbound sends
\* The hook's senders that go through assertSocketIsOpen and sendJson.
JsonSenders == { "sendSessionSettings", "sendUserInput", "sendAssistantInput",
                 "sendPauseAssistantMessage", "sendResumeAssistantMessage" }

\* One frame handed to sendSocket.send.
Frame(t, id, l) == [ type |-> t, toolCallId |-> id, level |-> l ]

\* The `type` each sender's ChatSocket method writes.
FrameType(op) ==
  CASE op = "sendSessionSettings"        -> "session_settings"
    [] op = "sendUserInput"              -> "user_input"
    [] op = "sendAssistantInput"         -> "assistant_input"
    [] op = "sendPauseAssistantMessage"  -> "pause_assistant_message"
    [] op = "sendResumeAssistantMessage" -> "resume_assistant_message"

\* assertSocketIsOpen: does the call go on to sendJson?
SocketIsOpen == sendSocket = SocketOpen

Attempt(op, outcome) == [ op |-> op, state |-> readyState, outcome |-> outcome ]

\* client.current?.sendX(...): nothing at all without a client, CustomError
\* when the socket is not open, else one JSON frame (the codec, `serializers`,
\* encodes every payload the senders build).
SendJson ==
  /\ \E op \in JsonSenders :
       IF client = "null"
         THEN /\ lastSend' = Attempt(op, "nothing")
              /\ UNCHANGED outbound
       ELSE IF ~SocketIsOpen
         THEN /\ lastSend' = Attempt(op, "CustomError")
              /\ UNCHANGED outbound
       ELSE /\ Len(outbound) < MaxSends
            /\ lastSend' = Attempt(op, "send called")
            /\ outbound' = Append(outbound, Frame(FrameType(op), NoId, Undefined))
  /\ UNCHANGED << hook, channelVars, lifecycleVars, dispatchVars, errors, faults, closeEvents >>

\* sendAudio: client.current?.sendSocket?.send(arrayBuffer), with no check
\* of the socket's state.
SendAudio ==
  /\ IF client = "null"
       THEN /\ lastSend' = Attempt("sendAudio", "nothing")
            /\ UNCHANGED outbound
       ELSE /\ Len(outbound) < MaxSends
            /\ lastSend' = Attempt("sendAudio", "send called")
            /\ outbound' = Append(outbound, Frame("audio_input", NoId, Undefined))
  /\ UNCHANGED << hook, channelVars, lifecycleVars, dispatchVars, errors, faults, closeEvents >>

\* ------------------------------------ ChatSocket: the receive channel
\* A recvEventHandlers table that holds the open handler.
RecvEventHandlersFilled == { "open" }

\* The handler tables of ChatSocket after connect registered its four
\* handlers: `on` writes sendEventHandlers whatever the event, and nothing
\* writes recvEventHandlers.
SendEventHandlers == { "open", "message", "close", "error" }
RecvEventHandlers == {}

\* The open event of recvSocket: handleRecvOpen calls recvEventHandlers.open?.().
RecvOpenEvent ==
  /\ listening
  /\ recvSocket = SocketConnecting
  /\ recvSocket' = SocketOpen
  /\ recvEvents' = recvEvents \cup { "open" }
  /\ IF "open" \in RecvEventHandlers
       THEN /\ readyState' = OPEN
            /\ connectPromise' = Settle(connectPromise, "resolved")
       ELSE UNCHANGED << readyState, connectPromise >>
  /\ UNCHANGED << hook, frames, client, sendSocket, listening, dispatchVars,
                  errors, faults, closeEvents, sendVars >>

\* The close event of recvSocket: handleRecvClose calls recvEventHandlers.close?.().
RecvCloseEvent ==
  /\ listening
  /\ recvSocket \in { SocketConnecting, SocketOpen }
  /\ recvSocket' = SocketClosed
  /\ recvEvents' = recvEvents \cup { "close" }
  /\ IF "close" \in RecvEventHandlers
       THEN /\ Len(closeEvents) < MaxCloses
            /\ \E code \in ChannelCloseCodes : CloseHandler(code)
       ELSE UNCHANGED << readyState, closeEvents >>
  /\ UNCHANGED << hook, frames, client, sendSocket, listening, connectPromise,
                  dispatchVars, errors, faults, sendVars >>

\* The transport connects again after a close it did not ask for.
RecvReconnect ==
  /\ listening
  /\ recvSocket = SocketClosed
  /\ recvSocket' = SocketConnecting
  /\ UNCHANGED << hook, recvEvents, frames, lifecycleVars, dispatchVars,
                  errors, faults, closeEvents, sendVars >>

\* The error event of recvSocket: handleRecvError calls recvEventHandlers.error?.().
RecvErrorEvent ==
  /\ listening
  /\ recvSocket # SocketNone
  /\ recvEvents' = recvEvents \cup { "error" }
  /\ IF "error" \in RecvEventHandlers
       THEN /\ errors' = errors \cup { TransportError }
            /\ connectPromise' = Settle(connectPromise, "rejected")
       ELSE UNCHANGED << errors, connectPromise >>
  /\ UNCHANGED << hook, recvSocket, frames, client, readyState, sendSocket,
                  listening, dispatchVars, faults, closeEvents, sendVars >>

\* ------------------------------------ ChatSocket: the message events
\* The data of a message event: JSON that the codec parses into a message,
\* JSON that the codec rejects, or text that is not JSON.
FrameBodies == { "message", "rejected", "not_json" }

\* `this.eventHandlers`, which handleSendMessage and handleRecvMessage read:
\* class ChatSocket declares sendEventHandlers and recvEventHandlers and no
\* eventHandlers, so the property is undefined.
EventHandlers == Undefined

\* What handleSendMessage / handleRecvMessage do with one message event:
\* JSON.parse throws on text that is not JSON; otherwise the handler read
\* from this.eventHandlers is called, `message` when the codec accepted the
\* data and `error` when it did not, and reading a property of undefined
\* throws.
MessageOutcome(body) ==
  IF body = "not_json" THEN "SyntaxError"
  ELSE IF EventHandlers = Undefined THEN "TypeError"
  ELSE IF body = "message" THEN "message"
  ELSE "error"

DecodeError == [ msg |-> "Received unknown message type", seq |-> 0 ]
FrameRecord(ch, body, outcome) == [ channel |-> ch, body |-> body, outcome |-> outcome ]

\* One message event of the socket `sock` of channel `ch`.  An exception
\* leaves the listener uncaught; the `error` handler is the hook's (onError,
\* then reject); the `message` handler is the hook's message handler.
HandleMessage(ch, sock) ==
  /\ listening
  /\ sock = SocketOpen
  /\ Len(frames) < MaxFrames
  /\ \E body \in FrameBodies :
       LET outcome == MessageOutcome(body) IN
         /\ frames' = Append(frames, FrameRecord(ch, body, outcome))
         /\ faults' = IF outcome \in { "SyntaxError", "TypeError" }
                        THEN faults \cup { Fault(Len(frames) + 1, outcome) }
                        ELSE faults
         /\ errors' = IF outcome = "error" THEN errors \cup { DecodeError } ELSE errors
         /\ connectPromise' = IF outcome = "error"
                                THEN Settle(connectPromise, "rejected")
                                ELSE connectPromise
  /\ UNCHANGED << hook, recvSocket, recvEvents, client, readyState, sendSocket,
                  listening, dispatchVars, closeEvents, sendVars >>

HandleSendMessage == HandleMessage("send", sendSocket)
HandleRecvMessage == HandleMessage("recv", recvSocket)

\* ------------------------------------------------------ specifications
Next ==
  \/ Connect
  \/ SendOpenEvent
  \/ SendCloseEvent
  \/ SendReconnect
  \/ SendErrorEvent
  \/ Disconnect
  \/ OnMessageDelayed
  \/ TimerFire
  \/ OnMessageTools
  \/ ToolResolve
  \/ SendJson
  \/ SendAudio
  \/ RecvOpenEvent
  \/ RecvCloseEvent
  \/ RecvReconnect
  \/ RecvErrorEvent
  \/ HandleSendMessage
  \/ HandleRecvMessage

Spec == Init /\ [][Next]_vars

\* The outbound senders read client and sendSocket and write outbound and
\* lastSend, which no other action reads; inbound dispatch reads and writes
\* neither, and a session runs one of the two hooks.  Each hook's dispatch,
\* the senders, and ChatSocket's handling of the events of its sockets are
\* checked with the whole lifecycle, without the others.
Lifecycle ==
  \/ Connect
  \/ SendOpenEvent
  \/ SendCloseEvent
  \/ SendReconnect
  \/ SendErrorEvent
  \/ Disconnect

DelayedNext ==
  \/ Lifecycle
  \/ OnMessageDelayed
  \/ TimerFire

ToolsNext ==
  \/ Lifecycle
  \/ OnMessageTools
  \/ ToolResolve

SendNext ==
  \/ Lifecycle
  \/ SendJson
  \/ SendAudio

\* ChatSocket between the two sockets and the hook's lifecycle handlers.
ChannelNext ==
  \/ Lifecycle
  \/ RecvOpenEvent
  \/ RecvCloseEvent
  \/ RecvReconnect
  \/ RecvErrorEvent
  \/ HandleSendMessage
  \/ HandleRecvMessage

DelayedInit == Init /\ hook = "delayed"
ToolsInit   == Init /\ hook = "tools"

DelayedSpec  == DelayedInit /\ [][DelayedNext]_vars
ToolsSpec    == ToolsInit /\ [][ToolsNext]_vars
SendSpec     == Init /\ [][SendNext]_vars
ChannelSpec  == Init /\ [][ChannelNext]_vars

\* ================================================================ claims
Positions == DOMAIN delivered

\* The audio message decoded at `seq` has reached onAudioMessage.
AudioDelivered(seq) ==
  \E i \in Positions : delivered[i] = Delivery("onAudioMessage", "audio_output", seq, FALSE)

\* The text made from the message decoded at `seq` reached onMessage before
\* position i of the log.
TextBefore(t, seq, i) ==
  \E j \in 1 .. (i - 1) : delivered[j] = Delivery("onMessage", t, seq, TRUE)

BothTextsBefore(i) ==
  /\ TextBefore("user_message", delivered[i].seq, i)
  /\ TextBefore("assistant_message", delivered[i].seq, i)

\* C1 as stated: whenever an audio_output that carries both question and
\* answer is handed to onAudioMessage, the user_message made from question
\* and the assistant_message made from answer were handed to onMessage
\* earlier.
C1_TextBeforeAudio_AsStated ==
  \A i \in Positions :
    ( /\ delivered[i].cb = "onAudioMessage"
      /\ decoded[delivered[i].seq].question # Undefined
      /\ decoded[delivered[i].seq].answer # Undefined )
    => BothTextsBefore(i)

\* C1 (amended): whenever an audio_output whose question and answer are both
\* non-empty strings is handed to onAudioMessage, the user_message made from
\* question and the assistant_message made from answer were handed to
\* onMessage earlier, whatever was decoded or fired in between.
C1_TextBeforeAudio ==
  \A i \in Positions :
    ( /\ delivered[i].cb = "onAudioMessage"
      /\ Truthy(decoded[delivered[i].seq].question)
      /\ Truthy(decoded[delivered[i].seq].answer) )
    => BothTextsBefore(i)

\* C1's case: such an audio message was delivered by its timer after a
\* message decoded later than it had already been delivered.
C1_Witness ==
  \E i \in Positions :
    /\ delivered[i].cb = "onAudioMessage"
    /\ Truthy(decoded[delivered[i].seq].question)
    /\ Truthy(decoded[delivered[i].seq].answer)
    /\ \E j \in 1 .. (i - 1) : delivered[j].seq > delivered[i].seq

\* C2 as stated: among the inbound messages that are not a legacy
\* audio_output with inline text, the consumer is handed them in the order
\* in which they were decoded.
C2_DeliveryOrder_AsStated ==
  \A i, j \in Positions :
    ( /\ i < j
      /\ ~delivered[i].synth /\ ~delivered[j].synth
      /\ ~IsLegacyText(decoded[delivered[i].seq])
      /\ ~IsLegacyText(decoded[delivered[j].seq]) )
    => delivered[i].seq < delivered[j].seq

\* C3 as stated: an audio_output with neither question nor answer has been
\* handed to onAudioMessage by the end of the step that decoded it.
C3_CurrentAudioUndelayed_AsStated ==
  \A seq \in DOMAIN decoded :
    IsCurrentAudio(decoded[seq]) => AudioDelivered(seq)

\* C4 as stated: an outbound operation called while the lifecycle state is
\* not Open ends in the not-connected error (and so hands nothing to the
\* outbound channel).
C4_SendNeedsOpen_AsStated ==
  (lastSend.op # "none" /\ lastSend.state # OPEN) => lastSend.outcome = "CustomError"

\* The outbound frames of kind t that carry toolCallId id.
ToolFrames(t, id) ==
  { i \in DOMAIN outbound : outbound[i].type = t /\ outbound[i].toolCallId = id }

\* The resolved invocations for toolCallId id whose handler used builder k.
Resolved(k, id) ==
  { c \in resolvedCalls : c.result.kind = k /\ decoded[c.seq].toolCallId = id }

\* C5 as stated: each tool_call with id X whose handler resolved through the
\* success builder has one tool_response with toolCallId X on the outbound
\* channel, and no tool_error.
C5_SuccessSendsOneResponse_AsStated ==
  \A id \in ToolCallIds :
    Resolved("success", id) # {} =>
      /\ Cardinality(ToolFrames("tool_response", id)) = Cardinality(Resolved("success", id))
      /\ (Resolved("error", id) = {} => ToolFrames("tool_error", id) = {})

\* C6 as stated: each tool_call with id X whose handler resolved through the
\* error builder with a level of the enumeration has one tool_error on the
\* outbound channel that carries toolCallId X and that very level.
C6_ErrorKeepsLevel_AsStated ==
  \A c \in resolvedCalls :
    (c.result.kind = "error" /\ c.result.level \in Levels) =>
      /\ c.response.level = c.result.level
      /\ \E i \in DOMAIN outbound :
           outbound[i] = Frame("tool_error", decoded[c.seq].toolCallId, c.result.level)

\* C7 as stated: a tool_call whose handler resolved with a malformed or a
\* missing result has sent nothing and has been reported through onError.
C7_MalformedIsReported_AsStated ==
  \A c \in resolvedCalls :
    c.result.kind \in { "malformed", "missing" } =>
      /\ InvalidResponse(c.seq) \in errors
      /\ outbound = << >>

\* C8 as stated, for the order the spec names: of two tool calls with
\* distinct ids of which the one invoked later resolved first (so that both
\* were outstanding together), both through a builder, each has exactly one
\* outbound result, carrying its own toolCallId.
C8_ConcurrentCallsCorrelated_AsStated ==
  \A c1, c2 \in resolvedCalls :
    ( /\ decoded[c1.seq].toolCallId # decoded[c2.seq].toolCallId
      /\ c1.seq < c2.seq /\ c2.nth < c1.nth
      /\ c1.result.kind \in { "success", "error" }
      /\ c2.result.kind \in { "success", "error" } )
    => \A c \in { c1, c2 } :
         Cardinality({ i \in DOMAIN outbound :
                         /\ outbound[i].type = c.response.type
                         /\ outbound[i].toolCallId = decoded[c.seq].toolCallId }) = 1

\* C9 as stated: the close notification that close() makes up (code 1000)
\* is given only when no close notification was given before, so that the
\* consumer is notified once.
C9_OneCloseNotification_AsStated ==
  \A i \in DOMAIN closeEvents : closeEvents[i] = NormalClosure => i = 1

\* C10 as stated: a decoded message whose type is none of the recognized
\* kinds has been reported through onError by the end of the step that
\* dispatched it.
C10_UnknownKindReported_AsStated ==
  \A seq \in DOMAIN decoded :
    decoded[seq].type = "new_kind" => \E e \in errors : e.seq = seq

\* The step is the open event of the send channel.
SendOpens == listening /\ sendSocket = SocketConnecting /\ sendSocket' = SocketOpen

C12_ClosedIsAbsorbing_AsStated ==
  [][ readyState = CLOSED => readyState' = CLOSED ]_vars

\* The step is a close event that one of the two channels reports by itself.
SendCloses == /\ sendSocket \in { SocketConnecting, SocketOpen }
              /\ sendSocket' = SocketClosed /\ listening'
RecvCloses == /\ recvSocket \in { SocketConnecting, SocketOpen }
              /\ recvSocket' = SocketClosed /\ listening'

\* C13 as stated: a close event of either channel while the lifecycle is
\* Connecting or Open makes the lifecycle Closed and calls onClose.
C13_EitherChannelCloses_AsStated ==
  [][ (readyState \in { CONNECTING, OPEN } /\ (SendCloses \/ RecvCloses))
      => (readyState' = CLOSED /\ Len(closeEvents') = Len(closeEvents) + 1) ]_vars

\* close() of the session was called: the client exists and ChatSocket has
\* taken its listeners off the sockets.
SessionClosed == client = "set" /\ ~listening

\* C14 as stated: once close() was called, nothing more is handed to
\* onMessage or onAudioMessage.
C14_NoDeliveryAfterClose_AsStated ==
  [][ SessionClosed => delivered' = delivered ]_vars

\* C15 as stated: when a tool handler resolves through a builder after the
\* session was closed, nothing is put on the outbound channel, no unhandled
\* fault is raised, and the failure is reported through onError.
C15_LateToolResultContained_AsStated ==
  [][ \A c \in resolvedCalls' \ resolvedCalls :
        (SessionClosed /\ c.result.kind \in { "success", "error" })
        => /\ outbound' = outbound
           /\ faults' = faults
           /\ \E e \in errors' : e.seq = c.seq ]_vars

FrameNumbers == 1..Len(frames)

\* C16 as stated: every frame of the recv channel that decodes to a
\* supported message reaches the consumer's message handler (once: a frame
\* has one outcome).
C16_RecvFrameDelivered_AsStated ==
  \A n \in FrameNumbers :
    (frames[n].channel = "recv" /\ frames[n].body = "message")
    => frames[n].outcome = "message"

\* C17 as stated: a frame that does not decode is reported through the error
\* callback and not delivered, raises no fault, and does not stop the frames
\* after it from being dispatched.
C17_BadFrameReported_AsStated ==
  \A n \in FrameNumbers :
    frames[n].body \in { "rejected", "not_json" }
    => /\ frames[n].outcome = "error"
       /\ DecodeError \in errors
       /\ \A f \in faults : f.seq # n
       /\ \A k \in FrameNumbers :
            (k > n /\ frames[k].body = "message") => frames[k].outcome = "message"

\* C18 as stated: a transport error of either channel while the lifecycle is
\* Open reaches the error callback, leaves the lifecycle Open and does not
\* settle connect() again.
C18_ErrorAfterOpenSurfaced_AsStated ==
  [][ (readyState = OPEN /\ (SendErrorEvent \/ RecvErrorEvent))
      => /\ TransportError \in errors'
         /\ readyState' = OPEN
         /\ connectPromise' = connectPromise ]_vars

\* C19 as stated: every decoded message handed to the consumer carries the
\* stamp it was given at decode; no stage of dispatch replaces it.
C19_StampedOnceAtDecode_AsStated ==
  \A i \in Positions : ~delivered[i].synth => delivered[i].receivedAt = AtDecode

\* C20: the delayed hook hands audio messages to onAudioMessage in the order
\* in which they were decoded.
C20_AudioInDecodeOrder ==
  \A i, j \in Positions :
    ( /\ i < j
      /\ delivered[i].cb = "onAudioMessage"
      /\ delivered[j].cb = "onAudioMessage" )
    => delivered[i].seq < delivered[j].seq

\* Two audio messages were pending together and both were handed over.
C20_Witness ==
  /\ hook = "delayed"
  /\ \E i, j \in Positions :
       /\ i < j
       /\ delivered[i].cb = "onAudioMessage"
       /\ delivered[j].cb = "onAudioMessage"
       /\ delivered[i].seq # delivered[j].seq

\* C21: disconnect() on a connected client that has seen no close yet calls
\* onClose once, with code 1000, and leaves the lifecycle CLOSED (not the IDLE
\* it sets first); once the session is closed only a further disconnect()
\* notifies again or changes the lifecycle.
C21_DisconnectNotifiesOnce ==
  [][ /\ (client = "set" /\ listening /\ closeEvents = << >> /\ Disconnect)
         => /\ closeEvents' = << NormalClosure >>
            /\ readyState' = CLOSED
      /\ (SessionClosed /\ ~Disconnect)
         => /\ closeEvents' = closeEvents
            /\ readyState' = readyState ]_vars

\* disconnect() was called on an open session that had seen no close, and the
\* transport has gone on after it.
C21_Witness ==
  /\ SessionClosed
  /\ connectPromise = "resolved"
  /\ closeEvents = << NormalClosure >>
  /\ readyState = CLOSED

\* C22: the lifecycle becomes OPEN only in a step in which the send channel
\* reports its open event, and an open event of the recv channel changes
\* neither the lifecycle nor the promise of connect() (its handler, which
\* would call onOpen, is not run).
C22_OpenGatedBySendChannel ==
  [][ /\ (readyState # OPEN /\ readyState' = OPEN) => SendOpenEvent
      /\ (connectPromise # "resolved" /\ connectPromise' = "resolved") => SendOpenEvent
      /\ RecvOpenEvent => (readyState' = readyState /\ connectPromise' = connectPromise) ]_vars

\* The recv channel has opened while the send channel has not: connect() is
\* still pending and the lifecycle still CONNECTING.
C22_Witness ==
  /\ "open" \in recvEvents
  /\ recvSocket = SocketOpen
  /\ sendSocket = SocketConnecting
  /\ readyState = CONNECTING
  /\ connectPromise = "pending"

====
